---- MODULE Spec2Model ----
(***************************************************************************)
(* The duplex chat session of l2cap-client.c (side "A") and                *)
(* l2cap-server.c (side "B"): on each side main starts thread_receiver and *)
(* thread_sender over one connected L2CAP SOCK_SEQPACKET socket, joins     *)
(* both and closes the socket.  The two programs share the code of the     *)
(* pumps and of get_flag_quit / set_flag_quit word for word, so one set of *)
(* actions, parameterised by the side, models both.                        *)
(*                                                                         *)
(* Init is the state at l2cap-client.c:146 / l2cap-server.c:174: the       *)
(* socket is connected, no thread has been created yet.                    *)
(***************************************************************************)
EXTENDS Integers, Sequences, FiniteSets, TLC

(***************************************************************************)
(* Bounds of the model.                                                    *)
(***************************************************************************)
\* fgets' bound `max_send` (672 in the source), scaled down.  The buffers
\* send_msg and receive_msg_buf hold max_send + 1 bytes (673 in the source).
max_send == 5
\* number of lines the operator types during a session
MaxTyped == 1
\* number of frames the peer sends during a session, when the peer is the
\* environment
MaxPeerFrames == 1

Sides == {"A", "B"}
Other(p) == IF p = "A" THEN "B" ELSE "A"

\* the two pump threads of a side
R == "r"
S == "s"
Threads == {R, S}
Sibling(t) == IF t = R THEN S ELSE R

(***************************************************************************)
(* Bytes.  A line, a buffer content and a frame are sequences of bytes.    *)
(***************************************************************************)
LF == "LF"
CR == "CR"
NUL == "NUL"
BYE == <<"b", "y", "e">>

Xs(n) == [i \in 1..n |-> "x"]

Min(a, b) == IF a < b THEN a ELSE b

Range(s) == {s[i] : i \in 1..Len(s)}

\* sizeof(send_msg), sizeof(receive_msg_buf): char [673]
BufSize == max_send + 1

\* The lines an operator may type, each ended by the newline of the terminal.
OperatorLines ==
    { BYE \o <<LF>>,                    \* the sentinel
      <<"x", LF>>,                      \* an ordinary line
      <<LF>>,                           \* the empty line
      BYE \o <<CR, LF>>,                \* the sentinel, CR LF line ending
      <<"x", CR, "y", LF>>,             \* a carriage return inside the line
      Xs(max_send - 1) \o <<LF>>,       \* limit - 1 characters
      Xs(max_send) \o <<LF>> }          \* limit characters

(***************************************************************************)
(* C string functions, computed as libc computes them.  A buffer is        *)
(* zeroed by memset before each use, so its content is the bytes stored    *)
(* followed by zero bytes; only the stored bytes are kept.                 *)
(***************************************************************************)
\* index (from 0) of the first byte of s that is in `stop`, or Len(s)
RECURSIVE FirstIn(_, _, _)
FirstIn(s, stop, i) ==
    IF i >= Len(s) THEN Len(s)
    ELSE IF s[i + 1] \in stop THEN i
    ELSE FirstIn(s, stop, i + 1)

\* strlen(buf): the number of bytes before the first zero byte
strlen(buf) == FirstIn(buf, {NUL}, 0)

\* the C string held in buf
CStr(buf) == SubSeq(buf, 1, strlen(buf))

\* strcspn(buf, "\n\r"): length of the initial segment without LF and CR
strcspn(buf) == FirstIn(buf, {LF, CR, NUL}, 0)

\* strcmp(buf, "bye") == 0
strcmp_bye(buf) == IF CStr(buf) = BYE THEN 1 ELSE 0

\* an fgets that stores up to n bytes, without room for the terminator
fgets_take_Full(n, in) ==
    LET nl == FirstIn(in, {LF}, 0)
    IN  IF nl < Len(in) /\ nl + 1 <= n THEN nl + 1
        ELSE IF Len(in) >= n THEN n
        ELSE 0

\* fgets(send_msg, n, stdin): the number of bytes it takes from the pending
\* input `in`: up to and including the first newline, at most n - 1 bytes.
\* 0 when it has to block (no newline yet and fewer than n - 1 bytes).
fgets_take(n, in) ==
    LET nl == FirstIn(in, {LF}, 0)
    IN  IF nl < Len(in) /\ nl + 1 <= n - 1 THEN nl + 1
        ELSE IF Len(in) >= n - 1 THEN n - 1
        ELSE 0

\* send_msg[strcspn(send_msg, "\n\r")] = 0;  (l2cap-client.c:95)
strip_newlines(buf) == SubSeq(buf, 1, strcspn(buf))

VARIABLES
    proc,               \* [side] "running" | "exited" | "crashed"; for a peer
                        \* that is the environment: "peer" | "gone"
    mpc,                \* [side] position of main
    tstate,             \* [side, thread] "none" | "running" | "terminated" | "joined"
    pc,                 \* [side, thread] position of the pump
    quit,               \* [side, thread] the pump's local `quit`
    result,             \* [side, thread] get_flag_quit's local `result`
    cancelreq,          \* [side, thread] a pthread_cancel is pending
    FLAG_QUIT,          \* [side] the global quit flag
    flag_quit_lock,     \* [side] holder of the mutex: "free" | "r" | "s"
    bytes_read,         \* [side] thread_receiver's bytes_read
    receive_msg_buf,    \* [side] thread_receiver's buffer
    send_msg,           \* [side] thread_sender's buffer
    status,             \* [side] thread_sender's status
    stdin,              \* [side] bytes typed and not yet read by fgets
    chan,               \* [side] frames in flight to this side
    link,               \* "up" | "down" (the L2CAP channel was reset)
    \* history variables
    typed,              \* [side] the lines the operator typed
    wrote,              \* [side] the write calls: payload and status
    sink,               \* [side] what thread_receiver printed
    closes,             \* [side] number of close() calls on the channel
    closer,             \* [side] who called close(): set of "main", "r", "s"
    flips,              \* [side] number of changes of FLAG_QUIT
    cancels,            \* [side] the pthread_cancel calls: caller and target state
    how,                \* [side, thread] how the pump ended
    late,               \* [side, thread] writes / forwards made with FLAG_QUIT = 1
    lastread            \* [side] kind of the last read of thread_receiver

vars == <<proc, mpc, tstate, pc, quit, result, cancelreq, FLAG_QUIT,
          flag_quit_lock, bytes_read, receive_msg_buf, send_msg, status,
          stdin, chan, link, typed, wrote, sink, closes, closer, flips,
          cancels, how, late, lastread>>

threadVars == <<tstate, pc, quit, result, cancelreq>>
flagVars == <<FLAG_QUIT, flag_quit_lock, flips>>
recvVars == <<bytes_read, receive_msg_buf, sink, lastread>>
sendVars == <<send_msg, status, wrote>>
envVars == <<stdin, typed, link>>
mainVars == <<mpc, closes, closer>>

PT == Sides \X Threads

\* everything but proc
InitSession ==
    /\ mpc = [p \in Sides |-> "create_r"]
    /\ tstate = [x \in PT |-> "none"]
    /\ pc = [x \in PT |-> "start"]
    /\ quit = [x \in PT |-> 0]
    /\ result = [x \in PT |-> 0]
    /\ cancelreq = [x \in PT |-> FALSE]
    /\ FLAG_QUIT = [p \in Sides |-> 0]
    /\ flag_quit_lock = [p \in Sides |-> "free"]
    /\ bytes_read = [p \in Sides |-> 0]
    /\ receive_msg_buf = [p \in Sides |-> <<>>]
    /\ send_msg = [p \in Sides |-> <<>>]
    /\ status = [p \in Sides |-> 0]
    /\ stdin = [p \in Sides |-> <<>>]
    /\ chan = [p \in Sides |-> <<>>]
    /\ link = "up"
    /\ typed = [p \in Sides |-> <<>>]
    /\ wrote = [p \in Sides |-> <<>>]
    /\ sink = [p \in Sides |-> <<>>]
    /\ closes = [p \in Sides |-> 0]
    /\ closer = [p \in Sides |-> {}]
    /\ flips = [p \in Sides |-> 0]
    /\ cancels = [p \in Sides |-> {}]
    /\ how = [x \in PT |-> "-"]
    /\ late = [x \in PT |-> 0]
    /\ lastread = [p \in Sides |-> "-"]

\* The client, with its peer as the environment: the peer sends any frames
\* and closes at any time.
Init ==
    /\ proc = [p \in Sides |-> IF p = "A" THEN "running" ELSE "peer"]
    /\ InitSession

\* The client and the server, connected to each other.
InitDuplex ==
    /\ proc = [p \in Sides |-> "running"]
    /\ InitSession

\* thread t of side p is at position l and may take a step
At(p, t, l) ==
    /\ proc[p] = "running"
    /\ tstate[<<p, t>>] = "running"
    /\ pc[<<p, t>>] = l

\* the peer's end of the channel is gone: it closed it, or its process died
PeerGone(p) == proc[Other(p)] \notin {"running", "peer"}

(***************************************************************************)
(* get_flag_quit and set_flag_quit (l2cap-client.c:22-37,                  *)
(* l2cap-server.c:42-57).  flag_quit_lock is a zero-initialised global,    *)
(* which is an unlocked mutex.  pthread_mutex_lock is taken together with  *)
(* the access to FLAG_QUIT it protects; pthread_mutex_unlock is a step of  *)
(* its own.                                                                *)
(***************************************************************************)
\* a get_flag_quit that never sees the flag
get_flag_quit_result_Blind(flag) == 0

\* result = FLAG_QUIT == 1;
get_flag_quit_result(flag) == IF flag = 1 THEN 1 ELSE 0

\* a set_flag_quit that toggles the flag instead of storing status
set_flag_quit_toggle(flag, st) == 1 - flag

\* FLAG_QUIT = status;
set_flag_quit_value(flag, st) == st

\* while(!quit) / while(quit != 1): the loop goes on
LoopContinues(q) == q # 1

\* the loop condition fails: on to pthread_exit
LoopExit(p, t) ==
    /\ At(p, t, "loop")
    /\ ~LoopContinues(quit[<<p, t>>])
    /\ pc' = [pc EXCEPT ![<<p, t>>] = "exit"]
    /\ UNCHANGED <<proc, tstate, quit, result, cancelreq, how, cancels, late, chan>>
    /\ UNCHANGED <<flagVars, recvVars, sendVars, envVars, mainVars>>

\* if (get_flag_quit()): pthread_mutex_lock and the read of FLAG_QUIT
GetFlagLock(p, t) ==
    /\ At(p, t, "loop")
    /\ LoopContinues(quit[<<p, t>>])
    /\ flag_quit_lock[p] = "free"
    /\ flag_quit_lock' = [flag_quit_lock EXCEPT ![p] = t]
    /\ result' = [result EXCEPT ![<<p, t>>] = get_flag_quit_result(FLAG_QUIT[p])]
    /\ pc' = [pc EXCEPT ![<<p, t>>] = "get_unlock"]
    /\ UNCHANGED <<proc, tstate, quit, cancelreq, how, cancels, late, chan>>
    /\ UNCHANGED <<FLAG_QUIT, flips, recvVars, sendVars, envVars, mainVars>>

\* a loop without the break: on to the blocking call whatever the flag
AfterGetFlag_NoBreak(t, res) == IF t = R THEN "read" ELSE "fgets"

\* if (get_flag_quit()) break;  else on to the blocking call of the pump
AfterGetFlag(t, res) ==
    IF res = 1 THEN "exit" ELSE IF t = R THEN "read" ELSE "fgets"

\* pthread_mutex_unlock and return result; then break, or go on to the
\* blocking call of the pump
GetFlagUnlock(p, t) ==
    /\ At(p, t, "get_unlock")
    /\ flag_quit_lock' = [flag_quit_lock EXCEPT ![p] = "free"]
    /\ pc' = [pc EXCEPT ![<<p, t>>] = AfterGetFlag(t, result[<<p, t>>])]
    /\ UNCHANGED <<proc, tstate, quit, result, cancelreq, how, cancels, late, chan>>
    /\ UNCHANGED <<FLAG_QUIT, flips, recvVars, sendVars, envVars, mainVars>>

\* set_flag_quit(1): pthread_mutex_lock and the write of FLAG_QUIT
SetFlagLock(p, t) ==
    /\ At(p, t, "set_lock")
    /\ flag_quit_lock[p] = "free"
    /\ flag_quit_lock' = [flag_quit_lock EXCEPT ![p] = t]
    /\ FLAG_QUIT' = [FLAG_QUIT EXCEPT ![p] = set_flag_quit_value(@, 1)]
    /\ flips' = [flips EXCEPT ![p] = IF FLAG_QUIT'[p] # FLAG_QUIT[p] THEN @ + 1 ELSE @]
    /\ pc' = [pc EXCEPT ![<<p, t>>] = "set_unlock"]
    /\ UNCHANGED <<proc, tstate, quit, result, cancelreq, how, cancels, late, chan>>
    /\ UNCHANGED <<recvVars, sendVars, envVars, mainVars>>

\* pthread_mutex_unlock of set_flag_quit
SetFlagUnlock(p, t) ==
    /\ At(p, t, "set_unlock")
    /\ flag_quit_lock' = [flag_quit_lock EXCEPT ![p] = "free"]
    /\ pc' = [pc EXCEPT ![<<p, t>>] = "cancel"]
    /\ UNCHANGED <<proc, tstate, quit, result, cancelreq, how, cancels, late, chan>>
    /\ UNCHANGED <<FLAG_QUIT, flips, recvVars, sendVars, envVars, mainVars>>

(***************************************************************************)
(* pthread_cancel(thread_sender_id) / pthread_cancel(thread_receiver_id).  *)
(* The id is valid from pthread_create until pthread_join has returned.    *)
(* A running target gets a pending (deferred) cancellation request; a      *)
(* terminated, unjoined target is left alone.  On an id that was never set *)
(* (the global is still 0) or whose thread was joined the call is          *)
(* undefined: it returns without effect or the process dies.               *)
(***************************************************************************)
ValidTarget(st) == st \in {"running", "terminated"}

CancelOutcomes(st) == IF ValidTarget(st) THEN {"ok"} ELSE {"noop", "crash"}

PthreadCancel(p, t) ==
    /\ At(p, t, "cancel")
    /\ LET target == <<p, Sibling(t)>>
           st == tstate[target]
       IN  /\ cancels' = [cancels EXCEPT ![p] = @ \cup {<<t, st>>}]
           /\ \E o \in CancelOutcomes(st) :
                /\ cancelreq' = [cancelreq EXCEPT ![target] =
                                    IF st = "running" THEN TRUE ELSE @]
                /\ proc' = [proc EXCEPT ![p] = IF o = "crash" THEN "crashed" ELSE @]
    /\ pc' = [pc EXCEPT ![<<p, t>>] = "loop"]
    /\ UNCHANGED <<tstate, quit, result, how, chan, late>>
    /\ UNCHANGED <<flagVars, recvVars, sendVars, envVars, mainVars>>

\* pthread_exit(NULL)
PthreadExit(p, t) ==
    /\ At(p, t, "exit")
    /\ tstate' = [tstate EXCEPT ![<<p, t>>] = "terminated"]
    /\ how' = [how EXCEPT ![<<p, t>>] = "exit"]
    /\ pc' = [pc EXCEPT ![<<p, t>>] = "done"]
    /\ UNCHANGED <<proc, quit, result, cancelreq, cancels, late, chan>>
    /\ UNCHANGED <<flagVars, recvVars, sendVars, envVars, mainVars>>

(***************************************************************************)
(* Deferred cancellation.  read and write are cancellation points: a       *)
(* pending request is acted on when the call is entered and while it       *)
(* blocks.  fgets, printf and perror may be cancellation points (they are  *)
(* when they reach the read or write system call), so with a request       *)
(* pending the thread is cancelled there or goes on.  pthread_mutex_lock,  *)
(* pthread_mutex_unlock and pthread_cancel are no cancellation points.     *)
(***************************************************************************)
\* a cancellation point between pthread_mutex_lock and pthread_mutex_unlock
AtCancellationPoint_InLock(p, t) ==
    \/ pc[<<p, t>>] \in {"read", "fgets", "write"}
    \/ pc[<<p, t>>] \in {"get_unlock", "set_unlock"}

AtCancellationPoint(p, t) ==
    \/ t = R /\ pc[<<p, R>>] = "read"
    \/ t = R /\ pc[<<p, R>>] = "proc" /\ bytes_read[p] > 0     \* printf
    \/ t = S /\ pc[<<p, S>>] = "fgets"
    \/ t = S /\ pc[<<p, S>>] = "write"
    \/ t = S /\ pc[<<p, S>>] = "check" /\ status[p] < 0        \* perror

Cancelled(p, t) ==
    /\ proc[p] = "running"
    /\ tstate[<<p, t>>] = "running"
    /\ cancelreq[<<p, t>>]
    /\ AtCancellationPoint(p, t)
    /\ tstate' = [tstate EXCEPT ![<<p, t>>] = "terminated"]
    /\ how' = [how EXCEPT ![<<p, t>>] = "cancelled"]
    /\ pc' = [pc EXCEPT ![<<p, t>>] = "done"]
    /\ UNCHANGED <<proc, quit, result, cancelreq, cancels, late, chan>>
    /\ UNCHANGED <<flagVars, recvVars, sendVars, envVars, mainVars>>

(***************************************************************************)
(* thread_receiver, the Inbound Pump (l2cap-client.c:45-73,                *)
(* l2cap-server.c:65-93).                                                  *)
(***************************************************************************)
\* What read(*s, receive_msg_buf, sizeof(receive_msg_buf)) returns on the
\* SOCK_SEQPACKET socket: <<bytes_read, bytes stored>>.  One call takes one
\* frame, cut to the size of the buffer; a reset link is an error; an empty
\* queue with the peer's end gone is end of file.
\* a read with a buffer size that is too small for the longest frame
ReadResult_Short(frame) ==
    LET n == Min(Len(frame), BufSize - 3)
    IN  <<n, SubSeq(frame, 1, n)>>

ReadResult(frame) ==
    LET n == Min(Len(frame), BufSize)
    IN  <<n, SubSeq(frame, 1, n)>>

ReadReady(p) == link = "down" \/ chan[p] # <<>> \/ PeerGone(p)

ReadKind(n, buf) ==
    IF n <= 0 THEN "nonpos" ELSE IF CStr(buf) = BYE THEN "bye" ELSE "data"

\* memset(receive_msg_buf, 0, ...); bytes_read = read(...);
Read(p) ==
    /\ At(p, R, "read")
    /\ ~cancelreq[<<p, R>>]
    /\ ReadReady(p)
    /\ LET res == IF link = "down" THEN <<-1, <<>> >>
                  ELSE IF chan[p] # <<>> THEN ReadResult(Head(chan[p]))
                  ELSE <<0, <<>> >>
       IN  /\ bytes_read' = [bytes_read EXCEPT ![p] = res[1]]
           /\ receive_msg_buf' = [receive_msg_buf EXCEPT ![p] = res[2]]
           /\ lastread' = [lastread EXCEPT ![p] = ReadKind(res[1], res[2])]
    /\ chan' = [chan EXCEPT ![p] =
                  IF link = "up" /\ chan[p] # <<>> THEN Tail(@) ELSE @]
    /\ pc' = [pc EXCEPT ![<<p, R>>] = "proc"]
    /\ UNCHANGED <<proc, tstate, quit, result, cancelreq, how, cancels, late, sink>>
    /\ UNCHANGED <<flagVars, sendVars, envVars, mainVars>>

\* a thread_receiver without the `else quit = 1` of its length test
ReceiverQuit_NoElse(n, buf) == strcmp_bye(buf)

\* quit = strcmp(receive_msg_buf, "bye") == 0;
\* if (bytes_read > 0) printf(...); else quit = 1;
ReceiverQuit(n, buf) == IF n > 0 THEN strcmp_bye(buf) ELSE 1

\* printf("Server: %s\n", receive_msg_buf): the C string in the buffer
Printed(n, buf) == IF n > 0 THEN <<CStr(buf)>> ELSE <<>>

\* read() filled all sizeof(receive_msg_buf) bytes and none of them is zero:
\* the array holds no terminator
Unterminated(buf) == Len(buf) = BufSize /\ NUL \notin Range(buf)

\* bytes of the stack after the array, up to the first zero byte
GARBAGE == "?"

\* What printf("%s") does with the buffer: <<outcome, lines printed>>.  On an
\* array without a terminator it reads past the end (undefined): the next
\* byte happens to be zero, or the bytes up to the next zero are printed
\* too, or the process dies.  strcmp(receive_msg_buf, "bye") stops at the
\* fourth byte at the latest and stays inside the array.
PrintfOutcomes(n, buf) ==
    IF n > 0 /\ Unterminated(buf)
    THEN { <<"ok", <<buf>> >>, <<"ok", <<buf \o <<GARBAGE>> >> >>,
           <<"crash", <<>> >> }
    ELSE { <<"ok", Printed(n, buf)>> }

Proc(p) ==
    /\ At(p, R, "proc")
    /\ quit' = [quit EXCEPT ![<<p, R>>] =
                  ReceiverQuit(bytes_read[p], receive_msg_buf[p])]
    /\ \E o \in PrintfOutcomes(bytes_read[p], receive_msg_buf[p]) :
          /\ sink' = [sink EXCEPT ![p] = @ \o o[2]]
          /\ late' = [late EXCEPT ![<<p, R>>] =
                        IF FLAG_QUIT[p] = 1 /\ o[2] # <<>> THEN @ + 1 ELSE @]
          /\ proc' = [proc EXCEPT ![p] = IF o[1] = "crash" THEN "crashed" ELSE @]
    /\ pc' = [pc EXCEPT ![<<p, R>>] =
                IF quit'[<<p, R>>] # 0 THEN "set_lock" ELSE "loop"]
    /\ UNCHANGED <<tstate, result, cancelreq, how, cancels, chan>>
    /\ UNCHANGED <<bytes_read, receive_msg_buf, lastread>>
    /\ UNCHANGED <<flagVars, sendVars, envVars, mainVars>>

(***************************************************************************)
(* thread_sender, the Outbound Pump (l2cap-client.c:81-115,                *)
(* l2cap-server.c:101-135).                                                *)
(***************************************************************************)
\* memset(send_msg, 0, ...); fgets(send_msg, max_send, stdin);
Fgets(p) ==
    /\ At(p, S, "fgets")
    /\ LET k == fgets_take(max_send, stdin[p])
       IN  /\ k > 0
           /\ send_msg' = [send_msg EXCEPT ![p] = SubSeq(stdin[p], 1, k)]
           /\ stdin' = [stdin EXCEPT ![p] = SubSeq(@, k + 1, Len(@))]
    /\ pc' = [pc EXCEPT ![<<p, S>>] = "write"]
    /\ UNCHANGED <<proc, tstate, quit, result, cancelreq, how, cancels, late, chan>>
    /\ UNCHANGED <<status, wrote, typed, link>>
    /\ UNCHANGED <<flagVars, recvVars, mainVars>>

\* the write succeeds while the link is up and the peer's end is open
WriteOk(p) == link = "up" /\ ~PeerGone(p)

\* send_msg[strcspn(send_msg, "\n\r")] = 0;
\* status = write(*s, send_msg, strlen(send_msg));
Write(p) ==
    /\ At(p, S, "write")
    /\ ~cancelreq[<<p, S>>]
    /\ LET msg == strip_newlines(send_msg[p])
           payload == SubSeq(msg, 1, strlen(msg))
           st == IF WriteOk(p) THEN Len(payload) ELSE -1
       IN  /\ send_msg' = [send_msg EXCEPT ![p] = msg]
           /\ status' = [status EXCEPT ![p] = st]
           /\ wrote' = [wrote EXCEPT ![p] = Append(@, <<payload, st>>)]
           /\ chan' = [chan EXCEPT ![Other(p)] =
                         IF st >= 0 THEN Append(@, payload) ELSE @]
    /\ late' = [late EXCEPT ![<<p, S>>] = IF FLAG_QUIT[p] = 1 THEN @ + 1 ELSE @]
    /\ pc' = [pc EXCEPT ![<<p, S>>] = "check"]
    /\ UNCHANGED <<proc, tstate, quit, result, cancelreq, how, cancels>>
    /\ UNCHANGED <<flagVars, recvVars, envVars, mainVars>>

\* if (status < 0) { perror(...); quit = 1; }
\* quit = strcmp(send_msg, "bye") == 0;
\* The second assignment overwrites the first.
SenderQuit(st, msg) ==
    LET q1 == IF st < 0 THEN 1 ELSE 0
        q2 == strcmp_bye(msg)
    IN  q2

Check(p) ==
    /\ At(p, S, "check")
    /\ quit' = [quit EXCEPT ![<<p, S>>] = SenderQuit(status[p], send_msg[p])]
    /\ pc' = [pc EXCEPT ![<<p, S>>] =
                IF quit'[<<p, S>>] # 0 THEN "set_lock" ELSE "loop"]
    /\ UNCHANGED <<proc, tstate, result, cancelreq, how, cancels, late, chan>>
    /\ UNCHANGED <<flagVars, recvVars, sendVars, envVars, mainVars>>

(***************************************************************************)
(* main, the Session Runner (l2cap-client.c:146-155,                       *)
(* l2cap-server.c:174-184).                                                *)
(***************************************************************************)
\* the statements of main in program order
MainOrder == <<"create_r", "create_s", "join_r", "join_s", "close", "done">>

\* a main that closes right after the first pthread_join
AfterMain_SkipSenderJoin(l) ==
    IF l = "join_r" THEN "close"
    ELSE LET i == CHOOSE j \in 1..Len(MainOrder) : MainOrder[j] = l
         IN  MainOrder[i + 1]

\* the statement of main after statement l
AfterMain(l) ==
    LET i == CHOOSE j \in 1..Len(MainOrder) : MainOrder[j] = l
    IN  MainOrder[i + 1]

\* pthread_create(&thread_receiver_id, ...) / (&thread_sender_id, ...)
PthreadCreate(p, t) ==
    /\ proc[p] = "running"
    /\ mpc[p] = (IF t = R THEN "create_r" ELSE "create_s")
    /\ tstate' = [tstate EXCEPT ![<<p, t>>] = "running"]
    /\ pc' = [pc EXCEPT ![<<p, t>>] = "loop"]
    /\ mpc' = [mpc EXCEPT ![p] = AfterMain(@)]
    /\ UNCHANGED <<proc, quit, result, cancelreq, how, cancels, late, chan>>
    /\ UNCHANGED <<closes, closer>>
    /\ UNCHANGED <<flagVars, recvVars, sendVars, envVars>>

\* pthread_join(thread_receiver_id, NULL) / (thread_sender_id, NULL)
PthreadJoin(p, t) ==
    /\ proc[p] = "running"
    /\ mpc[p] = (IF t = R THEN "join_r" ELSE "join_s")
    /\ tstate[<<p, t>>] = "terminated"
    /\ tstate' = [tstate EXCEPT ![<<p, t>>] = "joined"]
    /\ mpc' = [mpc EXCEPT ![p] = AfterMain(@)]
    /\ UNCHANGED <<proc, pc, quit, result, cancelreq, how, cancels, late, chan>>
    /\ UNCHANGED <<closes, closer>>
    /\ UNCHANGED <<flagVars, recvVars, sendVars, envVars>>

\* a main that closes the channel a second time
MainClosesTwice == 1 + 1

\* the number of close() calls main makes on the channel (the server's
\* second close is on the listening socket)
MainCloses == 1

\* close(s) / close(client), and main returns
Close(p) ==
    /\ proc[p] = "running"
    /\ mpc[p] = "close"
    /\ closes' = [closes EXCEPT ![p] = @ + MainCloses]
    /\ closer' = [closer EXCEPT ![p] = @ \cup {"main"}]
    /\ mpc' = [mpc EXCEPT ![p] = AfterMain(@)]
    /\ proc' = [proc EXCEPT ![p] = "exited"]
    /\ UNCHANGED <<threadVars, how, cancels, late, chan>>
    /\ UNCHANGED <<flagVars, recvVars, sendVars, envVars>>

(***************************************************************************)
(* The environment: the operator at the keyboard, a reset of the L2CAP     *)
(* link and, when the peer is the environment, the frames it sends and its *)
(* disconnection (it closes the channel or is killed).                     *)
(***************************************************************************)
\* the frames a peer may send: the sentinel, a chat line, a zero-length frame
PeerFrames == { BYE, <<"x">>, <<>> }

Type(p, line) ==
    /\ Len(typed[p]) < MaxTyped
    /\ typed' = [typed EXCEPT ![p] = Append(@, line)]
    /\ stdin' = [stdin EXCEPT ![p] = @ \o line]
    /\ UNCHANGED <<proc, threadVars, how, cancels, late, chan, link>>
    /\ UNCHANGED <<flagVars, recvVars, sendVars, mainVars>>

LinkReset ==
    /\ link = "up"
    /\ link' = "down"
    /\ UNCHANGED <<proc, threadVars, how, cancels, late, chan, stdin, typed>>
    /\ UNCHANGED <<flagVars, recvVars, sendVars, mainVars>>

PeerSend(p, frame) ==
    /\ proc[p] = "peer"
    /\ link = "up"
    /\ Len(wrote[p]) < MaxPeerFrames
    /\ wrote' = [wrote EXCEPT ![p] = Append(@, <<frame, Len(frame)>>)]
    /\ chan' = [chan EXCEPT ![Other(p)] = Append(@, frame)]
    /\ UNCHANGED <<proc, threadVars, how, cancels, late, send_msg, status>>
    /\ UNCHANGED <<flagVars, recvVars, envVars, mainVars>>

PeerClose(p) ==
    /\ proc[p] = "peer"
    /\ proc' = [proc EXCEPT ![p] = "gone"]
    /\ UNCHANGED <<threadVars, how, cancels, late, chan>>
    /\ UNCHANGED <<flagVars, recvVars, sendVars, envVars, mainVars>>

ThreadStep(p, t) ==
    \/ LoopExit(p, t)
    \/ GetFlagLock(p, t)
    \/ GetFlagUnlock(p, t)
    \/ SetFlagLock(p, t)
    \/ SetFlagUnlock(p, t)
    \/ PthreadCancel(p, t)
    \/ PthreadExit(p, t)
    \/ Cancelled(p, t)

PumpStep(p) ==
    \/ Read(p)
    \/ Proc(p)
    \/ Fgets(p)
    \/ Write(p)
    \/ Check(p)

MainStep(p) ==
    \/ \E t \in Threads : PthreadCreate(p, t)
    \/ \E t \in Threads : PthreadJoin(p, t)
    \/ Close(p)

\* a step of the program of side p
ProgramStep(p) ==
    \/ \E t \in Threads : ThreadStep(p, t)
    \/ PumpStep(p)
    \/ MainStep(p)

EnvStep ==
    \/ \E line \in OperatorLines : Type("A", line)
    \/ LinkReset
    \/ \E frame \in PeerFrames : PeerSend("B", frame)
    \/ PeerClose("B")

Next ==
    \/ \E p \in Sides : ProgramStep(p)
    \/ EnvStep

Spec == Init /\ [][Next]_vars

\* Both programs; only the operator of side A types.
NextDuplex ==
    \/ \E p \in Sides : ProgramStep(p)
    \/ \E line \in OperatorLines : Type("A", line)

SpecDuplex == InitDuplex /\ [][NextDuplex]_vars

(***************************************************************************)
(* The client against a peer that sends arbitrary bytes, and an operator   *)
(* who types near misses of the sentinel.                                  *)
(***************************************************************************)
ByteLines ==
    { BYE \o <<LF>>,                    \* the sentinel
      <<"B", "y", "e", LF>>,            \* another case
      <<" ">> \o BYE \o <<LF>>,         \* leading white space
      BYE \o <<"x", LF>>,               \* starts with the sentinel
      BYE \o <<CR, "x", LF>> }          \* bytes after a carriage return

ByteFrames ==
    { BYE,
      <<"B", "y", "e">>,
      BYE \o <<"x">>,
      BYE \o <<NUL, "x">>,              \* bytes after a zero byte
      Xs(BufSize) }                     \* a frame that fills the buffer

NextBytes ==
    \/ \E p \in Sides : ProgramStep(p)
    \/ \E line \in ByteLines : Type("A", line)
    \/ \E frame \in ByteFrames : PeerSend("B", frame)

SpecBytes == Init /\ [][NextBytes]_vars

(***************************************************************************)
(* Scheduling: every thread that can take a step eventually takes one.     *)
(***************************************************************************)
ReceiverStep(p) == ThreadStep(p, R) \/ Read(p) \/ Proc(p)
SenderStep(p) == ThreadStep(p, S) \/ Fgets(p) \/ Write(p) \/ Check(p)

Fairness ==
    \A p \in Sides :
        /\ WF_vars(ReceiverStep(p))
        /\ WF_vars(SenderStep(p))
        /\ WF_vars(MainStep(p))

FairSpec == Spec /\ Fairness

FairSpecDuplex == SpecDuplex /\ Fairness

(***************************************************************************)
(* Vocabulary of the properties.                                           *)
(***************************************************************************)
\* the sides that run the program (a peer that is the environment does not)
Programs == {p \in Sides : proc[p] \notin {"peer", "gone"}}

\* the pump has terminated: it called pthread_exit or was cancelled
Terminal(p, t) == tstate[<<p, t>>] \in {"terminated", "joined"}

\* main has closed the channel after joining both pumps
SessionClosed(p) ==
    /\ closes[p] >= 1
    /\ \A t \in Threads : tstate[<<p, t>>] = "joined"

\* no thread of the program of side p can take a step
Quiescent(p) == ~ENABLED ProgramStep(p)

\* the line without its trailing newline and carriage-return characters
RECURSIVE StripTrailing(_)
StripTrailing(line) ==
    IF line # <<>> /\ line[Len(line)] \in {LF, CR}
    THEN StripTrailing(SubSeq(line, 1, Len(line) - 1))
    ELSE line

(***************************************************************************)
(* C1  Mutual termination: once a pump of a side has terminated, the other *)
(* pump terminates too, main's two pthread_join calls return and main      *)
(* closes the channel, also when no further input arrives.  Stated on the  *)
(* states in which the program can take no further step: if a pump has     *)
(* terminated there, the session is closed.                                *)
(***************************************************************************)
C1_MutualTermination ==
    \A p \in Programs :
        ((Terminal(p, R) \/ Terminal(p, S)) /\ Quiescent(p)) => SessionClosed(p)

\* C1 as a temporal property, under fair scheduling of the threads: a
\* terminated pump leads to the session being closed
C1_MutualTerminationLive ==
    \A p \in Sides :
        (proc[p] # "peer" /\ (Terminal(p, R) \/ Terminal(p, S))) ~> SessionClosed(p)

(***************************************************************************)
(* C2  Write failure ends the session: after a write that returned a       *)
(* negative status the Outbound Pump has quit set, so that it sets         *)
(* FLAG_QUIT, cancels the Inbound Pump and leaves the loop; it is never    *)
(* back at the top of the loop or at fgets with quit clear.                *)
(***************************************************************************)
C2_WriteFailureEnds ==
    \A p \in Programs :
        (/\ tstate[<<p, S>>] = "running"
         /\ status[p] < 0
         /\ pc[<<p, S>>] \in {"loop", "get_unlock", "fgets"})
        => quit[<<p, S>>] = 1

(***************************************************************************)
(* C3  Close-after-join: whenever the channel has been closed, both pumps  *)
(* have terminated and have been joined; no pump is inside a call.         *)
(***************************************************************************)
C3_CloseAfterJoin ==
    \A p \in Programs :
        closes[p] > 0 =>
            \A t \in Threads : tstate[<<p, t>>] = "joined" /\ pc[<<p, t>>] = "done"

\* main has closed the channel of the client
C3_Witness == closes["A"] = 1 /\ proc["A"] = "exited"

(***************************************************************************)
(* C4  Simultaneous termination is clean: when both pumps of a side have   *)
(* decided to quit, the channel is closed at most once and every           *)
(* pthread_cancel issued went to a thread that was created and not yet     *)
(* joined.                                                                 *)
(***************************************************************************)
C4_SimultaneousClean ==
    \A p \in Programs :
        (quit[<<p, R>>] = 1 /\ quit[<<p, S>>] = 1) =>
            /\ closes[p] <= 1
            /\ \A c \in cancels[p] : ValidTarget(c[2])
            /\ proc[p] # "crashed"

(***************************************************************************)
(* C5  Single, monotonic transition of the session state: FLAG_QUIT is 0   *)
(* or 1, it has changed exactly as often as its value says (never before   *)
(* the first set_flag_quit(1), once after it, however many calls follow),  *)
(* and the result get_flag_quit is about to return is 1 iff the flag is 1. *)
(***************************************************************************)
C5_SingleTransition ==
    \A p \in Programs :
        /\ FLAG_QUIT[p] \in {0, 1}
        /\ flips[p] = FLAG_QUIT[p]
        /\ \A t \in Threads :
              (tstate[<<p, t>>] = "running" /\ pc[<<p, t>>] = "get_unlock")
              => (result[<<p, t>>] = 1 <=> FLAG_QUIT[p] = 1)

\* both pumps of the client have called set_flag_quit(1)
C5_Witness ==
    /\ {c[1] : c \in cancels["A"]} = {R, S}
    /\ FLAG_QUIT["A"] = 1

(***************************************************************************)
(* C6  Channel ownership: the channel is closed at most once, by main, and *)
(* exactly once when main is through; no step of a pump closes it; frames  *)
(* are taken from the channel only by thread_receiver's read and put on it *)
(* only by thread_sender's write.                                          *)
(***************************************************************************)
C6_ChannelOwnership ==
    /\ [](\A p \in Programs :
            /\ closes[p] <= 1
            /\ closer[p] \subseteq {"main"}
            /\ (mpc[p] = "done" <=> closes[p] = 1))
    /\ [][\A p \in Sides :
            /\ (\E t \in Threads : pc'[<<p, t>>] # pc[<<p, t>>])
                  => (closes'[p] = closes[p] /\ closer'[p] = closer[p])
            /\ (proc[p] = "running" /\ Len(chan'[p]) < Len(chan[p]))
                  => (pc[<<p, R>>] = "read" /\ pc'[<<p, R>>] = "proc")
            /\ (proc[p] = "running" /\ Len(chan'[Other(p)]) > Len(chan[Other(p)]))
                  => (pc[<<p, S>>] = "write" /\ pc'[<<p, S>>] = "check")]_vars

\* main has closed the channel after the pumps read a frame and wrote one
C6_Witness ==
    /\ closes["A"] = 1
    /\ closer["A"] = {"main"}
    /\ wrote["A"] # <<>>
    /\ lastread["A"] # "-"

(***************************************************************************)
(* C7  Two-sided voluntary end: the operator of side A types "bye"; A's    *)
(* Outbound Pump transmits it, sets FLAG_QUIT, cancels A's Inbound Pump    *)
(* and A closes; B's Inbound Pump receives it, sets FLAG_QUIT, cancels B's *)
(* Outbound Pump and B closes, with no operator action on side B.  Stated  *)
(* on the states in which neither program can take a further step.         *)
(***************************************************************************)
C7_TwoSidedVoluntaryEnd ==
    (/\ wrote["A"] # <<>>
     /\ wrote["A"][1] = <<BYE, Len(BYE)>>
     /\ \A p \in Sides : Quiescent(p))
    => /\ \A p \in Sides : SessionClosed(p) /\ FLAG_QUIT[p] = 1
       /\ \E c \in cancels["A"] : c[1] = S
       /\ \E c \in cancels["B"] : c[1] = R

(***************************************************************************)
(* C8  Sentinel equivalence in the Inbound Pump.  After a read that        *)
(* returned "bye" and after a read that returned a length <= 0 the pump    *)
(* takes the same path: quit is set, set_flag_quit(1) makes FLAG_QUIT 1,   *)
(* pthread_cancel is issued on the Outbound Pump, the pump reads no more   *)
(* and leaves by pthread_exit.                                             *)
(***************************************************************************)
\* the positions of thread_receiver from the end of the read on
AfterRead == {"proc", "set_lock", "set_unlock", "cancel", "loop", "exit", "done"}

\* the path of thread_receiver after a read that ends the session
TerminationPath(p) ==
    /\ pc[<<p, R>>] \in AfterRead
    /\ pc[<<p, R>>] \in AfterRead \ {"proc"} => quit[<<p, R>>] = 1
    /\ pc[<<p, R>>] \in {"set_unlock", "cancel", "loop", "exit", "done"}
          => FLAG_QUIT[p] = 1
    /\ pc[<<p, R>>] \in {"loop", "exit", "done"}
          => \E c \in cancels[p] : c[1] = R
    /\ pc[<<p, R>>] = "done" => how[<<p, R>>] = "exit"

\* C8 as it stands: after a read of "bye" and after a read of length <= 0
\* thread_receiver is on the termination path, whatever the interleaving
C8_SentinelEquivalence ==
    \A p \in Programs :
        lastread[p] \in {"bye", "nonpos"} => TerminationPath(p)

(***************************************************************************)
(* C8 (amended)  The two reads lead to the same termination path unless    *)
(* the pump is itself cancelled: printf, which only the "bye" run calls,   *)
(* is a cancellation point, and a request pthread_cancel left pending      *)
(* there by the Outbound Pump (which has set FLAG_QUIT before) ends the    *)
(* pump without its own set_flag_quit and pthread_cancel.                  *)
(***************************************************************************)
C8_SentinelEquivalenceUnlessCancelled ==
    \A p \in Programs :
        lastread[p] \in {"bye", "nonpos"} =>
            IF how[<<p, R>>] = "cancelled"
            THEN lastread[p] = "bye" /\ FLAG_QUIT[p] = 1
            ELSE TerminationPath(p)

\* the client's Inbound Pump has left by pthread_exit after reading "bye",
\* having set the flag and issued the cancel
C8_Witness ==
    /\ lastread["A"] = "bye"
    /\ how[<<"A", R>>] = "exit"
    /\ \E c \in cancels["A"] : c[1] = R

(***************************************************************************)
(* C9  Frame integrity: every operator line of at most max_send characters *)
(* is sent as exactly one write, whose payload is the line without its     *)
(* trailing newline and carriage-return characters: the i-th write carries *)
(* the i-th line.                                                          *)
(***************************************************************************)
C9_FrameIntegrity ==
    \A p \in Programs :
        \A i \in 1..Len(wrote[p]) :
            /\ i <= Len(typed[p])
            /\ wrote[p][i][1] = StripTrailing(typed[p][i])

(***************************************************************************)
(* C10  A non-sentinel line does not end the session: when the operator of *)
(* side A has typed one line that is not the sentinel and nothing else     *)
(* happens, side B's output sink receives exactly that line, FLAG_QUIT     *)
(* stays 0 on both sides and no pump terminates.                           *)
(***************************************************************************)
C10_NonSentinelKeepsRunning ==
    (Len(typed["A"]) = 1 /\ StripTrailing(typed["A"][1]) # BYE)
    => /\ \A p \in Sides :
            FLAG_QUIT[p] = 0 /\ \A t \in Threads : ~Terminal(p, t)
       /\ sink["B"] \in {<<>>, <<StripTrailing(typed["A"][1])>>}

(***************************************************************************)
(* C11.  Exact sentinel match.                                             *)
(***************************************************************************)
\* the bytes fgets has taken from the operator's input so far
Consumed(p) ==
    LET RECURSIVE Total(_)
        Total(ls) == IF ls = <<>> THEN 0 ELSE Len(Head(ls)) + Total(Tail(ls))
    IN  Total(typed[p]) - Len(stdin[p])

\* the typed line that holds the k-th byte of the input
RECURSIVE LineOfByte(_, _)
LineOfByte(ls, k) ==
    IF Len(ls) = 1 \/ k <= Len(Head(ls)) THEN Head(ls)
    ELSE LineOfByte(Tail(ls), k - Len(Head(ls)))

\* the operator line thread_sender has sent last (or a part of it)
SentLine(p) == LineOfByte(typed[p], Consumed(p))

\* the pump has tested its content against the sentinel and not yet fetched
\* the next one
Tested(p, t) ==
    /\ tstate[<<p, t>>] = "running"
    /\ pc[<<p, t>>] \in {"set_lock", "set_unlock", "cancel", "loop"}
    /\ IF t = S THEN wrote[p] # <<>> ELSE lastread[p] # "-" /\ bytes_read[p] > 0

\* C11: a pump takes content for the sentinel exactly when the content, the
\* operator line without its trailing newline and carriage-return
\* characters or the received payload, is "bye" byte for byte.
C11_ExactSentinelMatch ==
    \A p \in Programs :
        /\ Tested(p, S) =>
              (quit[<<p, S>>] = 1 <=> StripTrailing(SentLine(p)) = BYE)
        /\ Tested(p, R) =>
              (quit[<<p, R>>] = 1 <=> receive_msg_buf[p] = BYE)

(***************************************************************************)
(* C12.  The Shutdown Coordinator never blocks a pump for ever.            *)
(***************************************************************************)
\* the thread is between pthread_mutex_lock and pthread_mutex_unlock
InCritical(p, t) == pc[<<p, t>>] \in {"get_unlock", "set_unlock"}

\* the thread has called get_flag_quit or set_flag_quit and not yet returned
InCall(p, t) ==
    /\ tstate[<<p, t>>] = "running"
    /\ \/ InCritical(p, t)
       \/ pc[<<p, t>>] = "set_lock"
       \/ pc[<<p, t>>] = "loop" /\ LoopContinues(quit[<<p, t>>])

\* one holder at a time, who is inside get_flag_quit or set_flag_quit; no
\* pump has terminated or been cancelled with the lock held; while the
\* process lives the holder is a running thread about to unlock
LockDiscipline ==
    \A p \in Programs : \A t \in Threads :
        /\ InCritical(p, t) <=> flag_quit_lock[p] = t
        /\ InCritical(p, t) => ~InCritical(p, Sibling(t))
        /\ Terminal(p, t) => flag_quit_lock[p] # t
        /\ flag_quit_lock[p] = t /\ proc[p] = "running" =>
              tstate[<<p, t>>] = "running"

\* FLAG_QUIT is read (into result) and written only in a step that leaves
\* the lock held by the thread that reads or writes
FlagAccessLocked ==
    \A p \in Sides : \A t \in Threads :
        /\ result'[<<p, t>>] # result[<<p, t>>] => flag_quit_lock'[p] = t
        /\ pc'[<<p, t>>] = "get_unlock" /\ pc[<<p, t>>] # "get_unlock" =>
              /\ flag_quit_lock[p] = "free" /\ flag_quit_lock'[p] = t
              /\ result'[<<p, t>>] = get_flag_quit_result(FLAG_QUIT[p])
        /\ FLAG_QUIT'[p] # FLAG_QUIT[p] /\ pc'[<<p, t>>] # pc[<<p, t>>] =>
              flag_quit_lock[p] = "free" /\ flag_quit_lock'[p] = t
        /\ tstate'[<<p, t>>] # tstate[<<p, t>>] => flag_quit_lock[p] # t

\* C12: at most one thread holds flag_quit_lock, FLAG_QUIT is read and
\* written only with the lock held, no thread terminates or is cancelled
\* holding it, and every call of get_flag_quit and set_flag_quit returns.
C12_CoordinatorNeverBlocks ==
    /\ []LockDiscipline
    /\ [][FlagAccessLocked]_vars
    /\ \A p \in Sides : \A t \in Threads :
          InCall(p, t) ~> ~InCall(p, t)

\* a pump waits in set_flag_quit for the lock its sibling holds
C12_Witness ==
    \E p \in Programs : \E t \in Threads :
        /\ At(p, t, "set_lock")
        /\ At(p, Sibling(t), "get_unlock")
        /\ flag_quit_lock[p] = Sibling(t)

(***************************************************************************)
(* C13.  The stop check at the top of the loop.                            *)
(***************************************************************************)
\* what a step of thread t of side p does, seen from outside
LoopTopStep(p, t) ==
    LET x == <<p, t>>
    IN  /\ \* a blocking call is entered only from a get_flag_quit that
           \* returned 0, and get_flag_quit is entered only from the loop top
           pc'[x] # pc[x] /\ pc'[x] \in {"read", "fgets"} =>
              pc[x] = "get_unlock" /\ result[x] = 0
        /\ pc'[x] # pc[x] /\ pc'[x] = "get_unlock" => pc[x] = "loop"
        /\ \* with Ending observed the pump breaks out of the loop ...
           pc'[x] # pc[x] /\ pc[x] = "get_unlock" /\ FLAG_QUIT[p] = 1 =>
              result[x] = 1 /\ pc'[x] = "exit"
        /\ \* ... and from there only calls pthread_exit
           pc'[x] # pc[x] /\ pc[x] = "exit" =>
              pc'[x] = "done" /\ how'[x] = "exit"
        /\ pc'[x] # pc[x] /\ pc[x] \in {"get_unlock", "exit"} =>
              /\ UNCHANGED <<chan, stdin, wrote, sink, bytes_read, send_msg>>
              /\ UNCHANGED <<FLAG_QUIT, flips, cancels, late, cancelreq, quit>>

\* C13: each pump reads the session state at the start of every loop
\* iteration, before its blocking call; a pump that observes Ending there
\* leaves the loop and terminates without a channel read, an input read, a
\* channel write, an output, a set_flag_quit or a pthread_cancel.
C13_LoopTopStopCheck ==
    [][\A p \in Sides : \A t \in Threads : LoopTopStep(p, t)]_vars

\* a pump has left through the break: it saw Ending with its own quit at 0
C13_Witness ==
    \E p \in Programs : \E t \in Threads :
        /\ how[<<p, t>>] = "exit"
        /\ result[<<p, t>>] = 1
        /\ quit[<<p, t>>] = 0

(***************************************************************************)
(* C14.  Frames arrive in the order they were written.                     *)
(***************************************************************************)
\* the frames thread_sender of side p has written with success, in order
RECURSIVE Frames(_)
Frames(ws) ==
    IF ws = <<>> THEN <<>>
    ELSE (IF Head(ws)[2] >= 0 THEN <<Head(ws)[1]>> ELSE <<>>) \o Frames(Tail(ws))

SentFrames(p) == Frames(wrote[p])

IsPrefix(s, t) == Len(s) <= Len(t) /\ s = SubSeq(t, 1, Len(s))

\* the number of frames thread_receiver of side p has taken from the channel
Taken(p) == Len(SentFrames(Other(p))) - Len(chan[p])

\* C14: what side B's Inbound Pump has forwarded to its output is always a
\* prefix of the frames side A's Outbound Pump has written, in the same
\* order, nothing twice; the frames not yet read are the rest of that
\* sequence; and a pump has at most one frame taken and not yet forwarded.
C14_PerDirectionFifo ==
    \A p \in Sides :
        LET sent == SentFrames(Other(p))
        IN  /\ IsPrefix(sink[p], sent)
            /\ chan[p] = SubSeq(sent, Taken(p) + 1, Len(sent))
            /\ Taken(p) - Len(sink[p]) \in {0, 1}
            /\ Taken(p) - Len(sink[p]) = 1 /\ At(p, R, pc[<<p, R>>]) =>
                  pc[<<p, R>>] # "read"

\* two different frames have been forwarded, in the order they were written
C14_Witness ==
    \E p \in Sides :
        /\ Len(sink[p]) >= 2
        /\ sink[p][1] # sink[p][2]
        /\ sink[p] = SentFrames(Other(p))

(***************************************************************************)
(* C15, C16.  The thread id handed to pthread_cancel.                      *)
(***************************************************************************)
\* C15: whenever a pump calls pthread_cancel on its sibling's id, main has
\* not yet joined that sibling.
C15_NoCancelAfterJoin ==
    \A p \in Programs : \A c \in cancels[p] : c[2] # "joined"

\* C16: whenever thread_receiver calls pthread_cancel(thread_sender_id),
\* main's pthread_create of thread_sender has completed and stored the id.
C16_NoCancelBeforeCreate ==
    \A p \in Programs : \A c \in cancels[p] : c[1] = R => c[2] # "none"

(***************************************************************************)
(* C17.  Traffic after the session state has become Ending.                *)
(***************************************************************************)
\* C17: once FLAG_QUIT = 1 on a side, its Outbound Pump starts no new write
\* and its Inbound Pump forwards no new frame to the output.
C17_NoTrafficAfterEnding ==
    [][\A p \in Sides :
          FLAG_QUIT[p] = 1 => wrote'[p] = wrote[p] /\ sink'[p] = sink[p]]_vars

\* C17, amended: once FLAG_QUIT = 1 a pump makes at most one more write or
\* forward, the one of the iteration it was in, and after it never comes
\* back to its blocking call.
C17_AtMostOneAfterEnding ==
    \A p \in Programs :
        /\ late[<<p, S>>] <= 1 /\ late[<<p, R>>] <= 1
        /\ late[<<p, S>>] = 1 => pc[<<p, S>>] \notin {"fgets", "write"}
        /\ late[<<p, R>>] = 1 => pc[<<p, R>>] \notin {"read", "proc"}

\* the Outbound Pump has written, or the Inbound Pump has forwarded, with
\* FLAG_QUIT = 1
C17_Witness ==
    \E p \in Programs : \E t \in Threads : late[<<p, t>>] = 1 /\ FLAG_QUIT[p] = 1

(***************************************************************************)
(* C18.  The terminator of the receive buffer.                             *)
(***************************************************************************)
\* the Inbound Pump holds the result of a read that returned data
HoldsFrame(p) == lastread[p] # "-" /\ bytes_read[p] > 0

\* C18: every frame an Outbound Pump writes has at most max_send - 1 bytes,
\* fewer than the receive buffer has; so after every read of a peer's frame
\* a zero byte is left behind the payload, and strcmp and printf see the
\* payload exactly.  A frame of sizeof(receive_msg_buf) bytes would leave
\* none.
C18_ReceiveBufferTerminator ==
    /\ max_send - 1 < BufSize
    /\ \A p \in Sides : \A i \in 1..Len(wrote[p]) :
          Len(wrote[p][i][1]) <= max_send - 1
    /\ \A p \in Sides : HoldsFrame(p) =>
          /\ bytes_read[p] = Len(receive_msg_buf[p])
          /\ bytes_read[p] < BufSize
          /\ ~Unterminated(receive_msg_buf[p])
          /\ CStr(receive_msg_buf[p]) = receive_msg_buf[p]
          /\ PrintfOutcomes(bytes_read[p], receive_msg_buf[p]) =
                { <<"ok", <<receive_msg_buf[p]>> >> }
    /\ Unterminated(ReadResult(Xs(BufSize))[2])

\* the Inbound Pump has read and forwarded a frame of the greatest length
\* an Outbound Pump writes
C18_Witness ==
    \E p \in Sides :
        /\ HoldsFrame(p)
        /\ bytes_read[p] = max_send - 1
        /\ Xs(max_send - 1) \in Range(sink[p])

====
